---- MODULE Spec2Model ----
(***************************************************************************)
(* The instance manager of deployer/instance/manager.go: one caller issues *)
(* Manager.Create, Manager.FindCurrent and Manager.DeleteAll one after the *)
(* other; every Create with a non-empty registry launches one goroutine    *)
(* running registryServer.Start and meets it on an unbuffered channel.     *)
(* Collaborators (VM manager, stemcell, instance, disk deployer, registry  *)
(* server) are interfaces: their results are inputs chosen with \E.        *)
(***************************************************************************)
EXTENDS Integers, Sequences, FiniteSets, TLC

\* Number of Manager operations the caller issues in one behaviour.
MaxCalls == 3

JobNames == {"worker", "web"}
IDs == {0, 1}
CIDs == {"stemcell-1"}
Causes == {"insufficient capacity", "connection refused"}

VARIABLES
    pc,         \* position of the caller inside the current Manager operation
    calls,      \* number of Manager operations issued so far
    args,       \* arguments of the Create call in progress
    vm,         \* Create's local `vm`
    instance,   \* Create's named result `instance`
    err,        \* Create's named result `err`
    deferred,   \* TRUE while `defer m.registryServer.Stop()` is pending
    trace,      \* collaborator calls made by the operation in progress, in order
    stage,      \* steps recorded on eventLoggerStage by the operation in progress
    ret,        \* what the last completed operation returned
    gor,        \* per call: state of the goroutine running startRegistry
    sig,        \* per call: the value Start sends on readyErrCh
    starts,     \* registryServer.Start invocations begun
    stops,      \* registryServer.Stop invocations completed
    nextVM,     \* next handle the VM manager hands out
    current,    \* the VM the VM manager holds as currently deployed
    createdAs,  \* job identity `current` was created with
    instances,  \* DeleteAll's local `instances`
    idx         \* DeleteAll's loop position in `instances`

vars == <<pc, calls, args, vm, instance, err, deferred, trace, stage, ret, gor, sig,
          starts, stops, nextVM, current, createdAs, instances, idx>>

createVars == <<args, vm, instance, err, deferred, stage>>
registryVars == <<gor, sig, starts, stops>>
vmManagerVars == <<nextVM, current, createdAs>>
deleteVars == <<instances, idx>>

----------------------------------------------------------------------------
(* Errors: a Go error is the sequence of its contexts, outermost first,    *)
(* ending in the cause; each context is the sequence of its Sprintf pieces.*)
(* nil is the empty sequence.                                              *)

NoErr == <<>>

NewError(cause) == << <<cause>> >>

WrapError(e, context) == <<context>> \o e

Digits == <<"0", "1", "2", "3", "4", "5", "6", "7", "8", "9">>

RECURSIVE FormatInt(_)
FormatInt(i) ==
    IF i < 0 THEN <<"-">> \o FormatInt(-i)
    ELSE IF i < 10 THEN <<Digits[i + 1]>>
    ELSE FormatInt(i \div 10) \o <<Digits[(i % 10) + 1]>>

StepNameWithoutStemcell(jobName, id, cid) ==
    <<"Creating VM for instance '", jobName, "/">> \o FormatInt(id) \o <<"'">>

\* fmt.Sprintf("Creating VM for instance '%s/%d' from stemcell '%s'", ...)
StepName(jobName, id, cid) ==
    <<"Creating VM for instance '", jobName, "/">> \o FormatInt(id)
        \o <<"' from stemcell '", cid, "'">>

DeletingContext(jobName, id) ==
    <<"Deleting existing instance '", jobName, "/">> \o FormatInt(id) \o <<"'">>

PromotingContextCreatingVM(cid) == <<"Creating VM">>

\* bosherr.WrapErrorf(err, "Promoting stemcell as current '%s'", cloudStemcell.CID())
PromotingContext(cid) == <<"Promoting stemcell as current '", cid, "'">>

----------------------------------------------------------------------------
(* Values                                                                  *)

NilVM == [valid |-> FALSE, n |-> 0]

VMHandle(k) == [valid |-> TRUE, n |-> k]

NilInstance == [nil |-> TRUE, jobName |-> "", id |-> 0, vm |-> NilVM]

NewInstance(jobName, id, v) == [nil |-> FALSE, jobName |-> jobName, id |-> id, vm |-> v]

NoArgs == [jobName |-> "", id |-> 0, cid |-> "", registryEmpty |-> TRUE]

NoIdentity == [jobName |-> "", id |-> 0]

NoRet == [op |-> "none", instance |-> NilInstance, instances |-> <<>>, err |-> NoErr]

\* One collaborator call: which, its error, and the VM it concerned.
Event(op, e, v) == [op |-> op, ok |-> e = NoErr, err |-> e, vm |-> v]

\* eventLoggerStage.PerformStep: records the step and hands back the work's error.
PerformStepStart(s, name) == Append(s, [name |-> name, status |-> "started"])

PerformStepEnd(s, workErr) ==
    [s EXCEPT ![Len(s)].status = IF workErr = NoErr THEN "finished" ELSE "failed"]

PerformStepResult(name, workErr) == workErr

----------------------------------------------------------------------------
Init ==
    /\ pc = "idle"
    /\ calls = 0
    /\ args = NoArgs
    /\ vm = NilVM
    /\ instance = NilInstance
    /\ err = NoErr
    /\ deferred = FALSE
    /\ trace = <<>>
    /\ stage = <<>>
    /\ ret = NoRet
    /\ gor = [c \in 1..MaxCalls |-> "none"]
    /\ sig = [c \in 1..MaxCalls |-> NoErr]
    /\ starts = 0
    /\ stops = 0
    /\ nextVM = 1
    /\ current \in {NilVM, VMHandle(0)}
    /\ createdAs = NoIdentity
    /\ instances = <<>>
    /\ idx = 1

----------------------------------------------------------------------------
(* Manager.Create                                                          *)

RegistryNeededAlways(registryEmpty) == TRUE

\* `if !registry.IsEmpty()`
RegistryNeeded(registryEmpty) == ~registryEmpty

DeferStopAlways(registryEmpty) == TRUE

DeferStopNever(registryEmpty) == FALSE

\* `defer m.registryServer.Stop()` sits inside the same `if`
DeferStop(registryEmpty) == ~registryEmpty

\* Entry of Create up to the first blocking point: the channel receive when a
\* registry is configured, the tracked step otherwise.
CreateCall(jobName, id, cid, registryEmpty) ==
    /\ pc = "idle"
    /\ calls < MaxCalls
    /\ calls' = calls + 1
    /\ args' = [jobName |-> jobName, id |-> id, cid |-> cid,
                registryEmpty |-> registryEmpty]
    /\ vm' = NilVM
    /\ instance' = NilInstance
    /\ err' = NoErr
    /\ trace' = <<>>
    /\ stage' = <<>>
    /\ ret' = NoRet
    /\ deferred' = DeferStop(registryEmpty)
    /\ IF RegistryNeeded(registryEmpty)
       THEN /\ gor' = [gor EXCEPT ![calls + 1] = "spawned"]
            /\ pc' = "c_recv"
       ELSE /\ gor' = gor
            /\ pc' = "c_vm"
    /\ UNCHANGED <<sig, starts, stops, vmManagerVars, deleteVars>>

\* startRegistry: Start is invoked and reports on readyErrCh (nil or an error).
RegistryStartSignals(c, v) ==
    /\ gor[c] = "spawned"
    /\ starts' = starts + 1
    /\ sig' = [sig EXCEPT ![c] = v]
    /\ gor' = [gor EXCEPT ![c] = "sending"]
    /\ UNCHANGED <<pc, calls, createVars, trace, ret, stops, vmManagerVars, deleteVars>>

\* startRegistry: Start returns an error without sending; the error is logged.
RegistryStartReturnsErr(c) ==
    /\ gor[c] = "spawned"
    /\ starts' = starts + 1
    /\ gor' = [gor EXCEPT ![c] = "failed"]
    /\ UNCHANGED <<pc, calls, createVars, trace, ret, sig, stops, vmManagerVars, deleteVars>>

AfterRecvIgnoreErr(e) == "c_vm"

DeferredAfterRecvOnlyIfReady(e) == deferred /\ e = NoErr

\* The `defer` precedes the receive: it stays pending whatever is received.
DeferredAfterRecv(e) == deferred

\* `if err != nil { return ... }` after the receive
AfterRecv(e) == IF e # NoErr THEN "c_exit" ELSE "c_vm"

CreateRecvStopsEarly ==
    /\ pc = "c_recv"
    /\ gor[calls] = "sending"
    /\ trace' = trace \o <<Event("recv", sig[calls], NilVM), Event("Stop", NoErr, NilVM)>>
    /\ gor' = [gor EXCEPT ![calls] = "done"]
    /\ stops' = stops + 1
    /\ err' = IF sig[calls] # NoErr
              THEN WrapError(sig[calls], <<"Starting registry">>)
              ELSE NoErr
    /\ pc' = AfterRecv(sig[calls])
    /\ deferred' = FALSE
    /\ UNCHANGED <<calls, args, vm, instance, stage, ret, sig, starts,
                   vmManagerVars, deleteVars>>

\* `err = <-registryReadyErrCh`: rendezvous with the sender.
CreateRecv ==
    /\ pc = "c_recv"
    /\ gor[calls] = "sending"
    /\ trace' = Append(trace, Event("recv", sig[calls], NilVM))
    /\ gor' = [gor EXCEPT ![calls] = IF sig[calls] = NoErr THEN "serving" ELSE "done"]
    /\ err' = IF sig[calls] # NoErr
              THEN WrapError(sig[calls], <<"Starting registry">>)
              ELSE NoErr
    /\ pc' = AfterRecv(sig[calls])
    /\ deferred' = DeferredAfterRecv(sig[calls])
    /\ UNCHANGED <<calls, args, vm, instance, stage, ret, sig, starts, stops,
                   vmManagerVars, deleteVars>>

Outcomes == {NoErr} \cup {NewError(c) : c \in Causes}

AfterStepIgnoreErr(e, next) == next

\* `if err != nil { return instance, ... }` after a step
AfterStep(e, next) == IF e # NoErr THEN "c_exit" ELSE next

CreatingVMErrWithStepName(e) ==
    WrapError(e, StepName(args.jobName, args.id, args.cid))

\* `bosherr.WrapError(err, "Creating VM")`
CreatingVMErr(e) == WrapError(e, <<"Creating VM">>)

\* PerformStep begins; the closure calls vmManager.Create.
CreateVM(e) ==
    /\ pc = "c_vm"
    /\ trace' = Append(trace, Event("vmCreate", e, IF e = NoErr THEN VMHandle(nextVM) ELSE NilVM))
    /\ pc' = AfterStep(e, "c_promote")
    /\ IF e = NoErr
       THEN /\ vm' = VMHandle(nextVM)
            /\ nextVM' = nextVM + 1
            /\ current' = VMHandle(nextVM)
            /\ createdAs' = [jobName |-> args.jobName, id |-> args.id]
            /\ err' = NoErr
            /\ stage' = PerformStepStart(stage, StepName(args.jobName, args.id, args.cid))
       ELSE /\ vm' = NilVM
            /\ UNCHANGED vmManagerVars
            /\ err' = PerformStepResult(StepName(args.jobName, args.id, args.cid),
                                        CreatingVMErr(e))
            /\ stage' = PerformStepEnd(
                            PerformStepStart(stage,
                                StepName(args.jobName, args.id, args.cid)),
                            CreatingVMErr(e))
    /\ UNCHANGED <<calls, args, instance, deferred, ret, registryVars, deleteVars>>

InstanceAfterStepNilVM(next) ==
    IF next = "c_wait" THEN NewInstance(args.jobName, args.id, NilVM) ELSE instance

InstanceAfterStepAlways(next) == NewInstance(args.jobName, args.id, vm)

InstanceAfterStepNil(next) == NilInstance

\* `instance = NewInstance(jobName, id, vm, ...)`, reached only past the tracked step
InstanceAfterStep(next) ==
    IF next = "c_wait" THEN NewInstance(args.jobName, args.id, vm) ELSE instance

\* The closure calls cloudStemcell.PromoteAsCurrent; PerformStep ends; on success
\* the Instance is constructed and the tunnel options are built.
CreatePromote(e) ==
    /\ pc = "c_promote"
    /\ trace' = Append(trace, Event("promote", e, NilVM))
    /\ pc' = AfterStep(e, "c_wait")
    /\ err' = PerformStepResult(StepName(args.jobName, args.id, args.cid),
                  IF e = NoErr THEN NoErr ELSE WrapError(e, PromotingContext(args.cid)))
    /\ stage' = PerformStepEnd(stage, e)
    /\ instance' = InstanceAfterStep(AfterStep(e, "c_wait"))
    /\ UNCHANGED <<calls, args, vm, deferred, ret, registryVars, vmManagerVars,
                   deleteVars>>

\* `instance.WaitUntilReady(sshTunnelOptions, eventLoggerStage)`
CreateWait(e) ==
    /\ pc = "c_wait"
    /\ trace' = Append(trace, Event("waitUntilReady", e, instance.vm))
    /\ pc' = AfterStep(e, "c_pool")
    /\ err' = IF e = NoErr THEN err
              ELSE WrapError(e, <<"Waiting until instance is ready">>)
    /\ UNCHANGED <<calls, args, vm, instance, deferred, stage, ret, registryVars,
                   vmManagerVars, deleteVars>>

\* `deployment.DiskPool(jobName)`
CreatePool(e) ==
    /\ pc = "c_pool"
    /\ trace' = Append(trace, Event("diskPool", e, NilVM))
    /\ pc' = AfterStep(e, "c_disk")
    /\ err' = IF e = NoErr THEN NoErr ELSE WrapError(e, <<"Getting disk pool">>)
    /\ UNCHANGED <<calls, args, vm, instance, deferred, stage, ret, registryVars,
                   vmManagerVars, deleteVars>>

\* `m.diskDeployer.Deploy(diskPool, m.cloud, vm, eventLoggerStage)`
CreateDisk(e) ==
    /\ pc = "c_disk"
    /\ trace' = Append(trace, Event("diskDeploy", e, vm))
    /\ pc' = AfterStep(e, "c_jobs")
    /\ err' = IF e = NoErr THEN NoErr ELSE WrapError(e, <<"Deploying disk">>)
    /\ UNCHANGED <<calls, args, vm, instance, deferred, stage, ret, registryVars,
                   vmManagerVars, deleteVars>>

\* `instance.StartJobs(...)`: both outcomes return `instance, err`.
CreateJobs(e) ==
    /\ pc = "c_jobs"
    /\ trace' = Append(trace, Event("startJobs", e, instance.vm))
    /\ pc' = "c_exit"
    /\ err' = e
    /\ UNCHANGED <<calls, args, vm, instance, deferred, stage, ret, registryVars,
                   vmManagerVars, deleteVars>>

\* The deferred `m.registryServer.Stop()` runs once the function body has returned.
RegistryStop ==
    /\ pc = "c_exit"
    /\ deferred
    /\ deferred' = FALSE
    /\ stops' = stops + 1
    /\ trace' = Append(trace, Event("Stop", NoErr, NilVM))
    /\ gor' = [gor EXCEPT ![calls] = IF @ = "serving" THEN "done" ELSE @]
    /\ UNCHANGED <<pc, calls, args, vm, instance, err, stage, ret, sig, starts,
                   vmManagerVars, deleteVars>>

\* Create hands `(instance, err)` to its caller.
CreateReturn ==
    /\ pc = "c_exit"
    /\ ~deferred
    /\ pc' = "idle"
    /\ ret' = [op |-> "Create", instance |-> instance, instances |-> <<>>, err |-> err]
    /\ UNCHANGED <<calls, createVars, trace, registryVars, vmManagerVars, deleteVars>>

----------------------------------------------------------------------------
(* Manager.FindCurrent and Manager.DeleteAll                               *)

FindCurrentNoWrap(v, found, lookupErr) ==
    IF lookupErr # NoErr
    THEN [instances |-> <<>>, err |-> lookupErr]
    ELSE IF ~found
    THEN [instances |-> <<>>, err |-> NoErr]
    ELSE [instances |-> <<NewInstance("unknown", 0, v)>>, err |-> NoErr]

FindCurrentKeepsIdentity(v, found, lookupErr) ==
    IF lookupErr # NoErr
    THEN [instances |-> <<>>,
          err |-> WrapError(lookupErr, <<"Finding currently deployed instances">>)]
    ELSE IF ~found
    THEN [instances |-> <<>>, err |-> NoErr]
    ELSE [instances |-> <<NewInstance(createdAs.jobName, createdAs.id, v)>>,
          err |-> NoErr]

\* The body of FindCurrent on the VM manager's answer (vm, found, err).
FindCurrent(v, found, lookupErr) ==
    IF lookupErr # NoErr
    THEN [instances |-> <<>>,
          err |-> WrapError(lookupErr, <<"Finding currently deployed instances">>)]
    ELSE IF ~found
    THEN [instances |-> <<>>, err |-> NoErr]
    ELSE [instances |-> <<NewInstance("unknown", 0, v)>>, err |-> NoErr]

\* What m.vmManager.FindCurrent() answers: the deployed VM, unless the lookup fails.
VMManagerFindCurrent(lookupErr) ==
    IF lookupErr # NoErr
    THEN [vm |-> NilVM, found |-> FALSE, err |-> lookupErr]
    ELSE [vm |-> current, found |-> current.valid, err |-> NoErr]

FindCurrentCall(lookupErr) ==
    /\ pc = "idle"
    /\ calls < MaxCalls
    /\ calls' = calls + 1
    /\ trace' = <<Event("vmFindCurrent", lookupErr, VMManagerFindCurrent(lookupErr).vm)>>
    /\ LET a == VMManagerFindCurrent(lookupErr)
           r == FindCurrent(a.vm, a.found, a.err)
       IN  ret' = [op |-> "FindCurrent", instance |-> NilInstance,
                   instances |-> r.instances, err |-> r.err]
    /\ UNCHANGED <<pc, createVars, registryVars, vmManagerVars, deleteVars>>

\* DeleteAll up to the loop: FindCurrent, and the return when it failed.
DeleteAllCall(lookupErr) ==
    /\ pc = "idle"
    /\ calls < MaxCalls
    /\ calls' = calls + 1
    /\ trace' = <<Event("vmFindCurrent", lookupErr, VMManagerFindCurrent(lookupErr).vm)>>
    /\ LET a == VMManagerFindCurrent(lookupErr)
           r == FindCurrent(a.vm, a.found, a.err)
       IN  IF r.err # NoErr
           THEN /\ ret' = [op |-> "DeleteAll", instance |-> NilInstance,
                           instances |-> <<>>, err |-> r.err]
                /\ pc' = "idle"
                /\ UNCHANGED deleteVars
           ELSE /\ ret' = NoRet
                /\ pc' = "d_loop"
                /\ instances' = r.instances
                /\ idx' = 1
    /\ UNCHANGED <<createVars, registryVars, vmManagerVars>>

AfterDeleteIgnoreErr(e) == "d_loop"

\* `if err = instance.Delete(...); err != nil { return ... }`
AfterDelete(e) == IF e # NoErr THEN "idle" ELSE "d_loop"

\* One iteration of the loop: instance.Delete on instances[idx].
DeleteStep(e) ==
    /\ pc = "d_loop"
    /\ idx <= Len(instances)
    /\ trace' = Append(trace, Event("Delete", e, instances[idx].vm))
    /\ pc' = AfterDelete(e)
    /\ idx' = idx + 1
    /\ IF e = NoErr
       THEN /\ current' = IF instances[idx].vm = current THEN NilVM ELSE current
            /\ createdAs' = IF instances[idx].vm = current THEN NoIdentity ELSE createdAs
       ELSE UNCHANGED <<current, createdAs>>
    /\ ret' = IF AfterDelete(e) = "idle"
              THEN [op |-> "DeleteAll", instance |-> NilInstance, instances |-> <<>>,
                    err |-> WrapError(e, DeletingContext(instances[idx].jobName,
                                                         instances[idx].id))]
              ELSE ret
    /\ UNCHANGED <<calls, createVars, registryVars, nextVM, instances>>

\* The loop is exhausted: `return nil`.
DeleteAllReturn ==
    /\ pc = "d_loop"
    /\ idx > Len(instances)
    /\ pc' = "idle"
    /\ ret' = [op |-> "DeleteAll", instance |-> NilInstance, instances |-> <<>>,
               err |-> NoErr]
    /\ UNCHANGED <<calls, createVars, trace, registryVars, vmManagerVars, deleteVars>>

----------------------------------------------------------------------------
Step ==
    \/ \E c \in 1..MaxCalls, v \in Outcomes : RegistryStartSignals(c, v)
    \/ \E c \in 1..MaxCalls : RegistryStartReturnsErr(c)
    \/ CreateRecv
    \/ \E e \in Outcomes : CreateVM(e)
    \/ \E e \in Outcomes : CreatePromote(e)
    \/ \E e \in Outcomes : CreateWait(e)
    \/ \E e \in Outcomes : CreatePool(e)
    \/ \E e \in Outcomes : CreateDisk(e)
    \/ \E e \in Outcomes : CreateJobs(e)
    \/ RegistryStop
    \/ CreateReturn
    \/ \E e \in Outcomes : DeleteStep(e)
    \/ DeleteAllReturn

Call ==
    \/ \E j \in JobNames, i \in IDs, cid \in CIDs, re \in BOOLEAN : CreateCall(j, i, cid, re)
    \/ \E e \in Outcomes : FindCurrentCall(e)
    \/ \E e \in Outcomes : DeleteAllCall(e)

Next == Step \/ Call

Spec == Init /\ [][Next]_vars

\* Every goroutine that can run is scheduled and every collaborator call returns;
\* the caller is free to issue no further operation.
FairSpec == Spec /\ WF_vars(Step)

----------------------------------------------------------------------------
(* Properties                                                              *)

CreatePcs == {"c_recv", "c_vm", "c_promote", "c_wait", "c_pool", "c_disk", "c_jobs",
              "c_exit"}

CreateActive == pc \in CreatePcs

CreateReturned == pc = "idle" /\ ret.op = "Create"

Count(op) == Cardinality({k \in DOMAIN trace : trace[k].op = op})

StepOrder == <<"vmCreate", "promote", "waitUntilReady", "diskPool", "diskDeploy",
               "startJobs">>

StepOps == {StepOrder[k] : k \in DOMAIN StepOrder}

IsStep(ev) == ev.op \in StepOps

\* The steps after registry startup the call has performed, in order.
StepsDone == SelectSeq(trace, IsStep)

LastStepFailedAt(op) ==
    /\ StepsDone # <<>>
    /\ StepsDone[Len(StepsDone)].op = op
    /\ ~StepsDone[Len(StepsDone)].ok

\* C1: a Create call with a non-empty registry has invoked the registry server's
\* Stop exactly once when it returns, as the last thing it does, on every exit
\* path; and never more than once while it runs.
C1_StopExactlyOnce ==
    /\ (CreateActive /\ ~args.registryEmpty) => Count("Stop") <= 1
    /\ (CreateReturned /\ ~args.registryEmpty) =>
          /\ Count("Stop") = 1
          /\ trace[Len(trace)].op = "Stop"

\* A Create with a registry whose readiness signal carried an error has returned,
\* having stopped the registry once.
C1_Witness ==
    /\ CreateReturned
    /\ ~args.registryEmpty
    /\ trace[1].op = "recv" /\ ~trace[1].ok
    /\ Count("Stop") = 1

\* C2: a Create call with a non-empty registry reads the readiness signal exactly
\* once, before any later step; a read error is returned wrapped with
\* "Starting registry" and no later step is performed.
C2_ReadOnceBeforeSteps ==
    ((CreateActive \/ CreateReturned) /\ ~args.registryEmpty) =>
        /\ Count("recv") <= 1
        /\ (StepsDone # <<>> \/ CreateReturned \/ pc # "c_recv") =>
              (Count("recv") = 1 /\ trace[1].op = "recv")
        /\ (Count("recv") = 1 /\ ~trace[1].ok) =>
              /\ StepsDone = <<>>
              /\ pc \in {"c_exit", "idle"}
              /\ CreateReturned =>
                    /\ ret.err = <<<<"Starting registry">>>> \o sig[calls]
                    /\ ret.err # NoErr

\* A Create has returned the readiness error wrapped, with no step performed.
C2_Witness ==
    /\ CreateReturned
    /\ ~args.registryEmpty
    /\ ~trace[1].ok
    /\ ret.err = <<<<"Starting registry">>, <<"insufficient capacity">>>>
    /\ StepsDone = <<>>

\* Start of the call in progress has failed, reported either way.
StartFailed(c) == gor[c] = "failed" \/ (gor[c] = "sending" /\ sig[c] # NoErr)

\* C3: a Create whose registry server failed to start is not blocked for good on
\* the readiness signal: while it waits, some step of the program can still be taken.
C3_NotBlockedOnFailedStart ==
    (pc = "c_recv" /\ StartFailed(calls)) => ENABLED Step

\* C3 as a progress property: such a Create eventually returns an error.
C3_FailFast ==
    (pc = "c_recv" /\ StartFailed(calls)) ~> (CreateReturned /\ ret.err # NoErr)

\* C4: a Create call with an empty registry never launches the registry server and
\* never waits on a readiness signal; the first thing it does is the tracked step
\* that creates the VM.
C4_EmptyRegistryNoStart ==
    ((CreateActive \/ CreateReturned) /\ args.registryEmpty) =>
        /\ gor[calls] = "none"
        /\ pc # "c_recv"
        /\ Count("recv") = 0
        /\ trace # <<>> =>
              /\ trace[1].op = "vmCreate"
              /\ stage[1].name = StepName(args.jobName, args.id, args.cid)
        /\ CreateReturned => trace # <<>>

\* A Create with an empty registry ran to its end after a registry had been
\* started by an earlier call.
C4_Witness ==
    /\ CreateReturned
    /\ args.registryEmpty
    /\ starts > 0
    /\ trace[1].op = "vmCreate"
    /\ Len(trace) = Len(StepOrder)

\* C5: the steps of one Create are performed in the fixed order, each only after
\* all earlier ones succeeded: the steps done are a prefix of the order and only
\* the last of them can have failed.
C5_StepsInOrder ==
    (CreateActive \/ CreateReturned) =>
        /\ Len(StepsDone) <= Len(StepOrder)
        /\ \A k \in DOMAIN StepsDone :
              /\ StepsDone[k].op = StepOrder[k]
              /\ k < Len(StepsDone) => StepsDone[k].ok
        /\ (StepsDone # <<>> /\ ~StepsDone[Len(StepsDone)].ok) => pc \in {"c_exit", "idle"}

\* A Create has returned after its disk deploy failed: five steps, no StartJobs.
C5_Witness ==
    /\ CreateReturned
    /\ LastStepFailedAt("diskDeploy")
    /\ Len(StepsDone) = 5

IsPrefix(p, q) == Len(p) <= Len(q) /\ SubSeq(q, 1, Len(p)) = p

\* The VM handed out by the VM manager in the call in progress.
CreatedVM == StepsDone[1].vm

\* C6: a Create that fails at WaitUntilReady, the disk pool lookup, the disk
\* deploy or StartJobs returns, with the error, a non-nil Instance of the job that
\* wraps the VM created in that call.
C6_PartialInstanceReturned ==
    (CreateReturned /\ \E op \in {"waitUntilReady", "diskPool", "diskDeploy", "startJobs"} :
                            LastStepFailedAt(op)) =>
        /\ ret.err # NoErr
        /\ ~ret.instance.nil
        /\ CreatedVM.valid
        /\ ret.instance = [nil |-> FALSE, jobName |-> args.jobName, id |-> args.id,
                           vm |-> CreatedVM]

\* A Create has returned after its disk pool lookup failed.
C6_Witness ==
    /\ CreateReturned
    /\ LastStepFailedAt("diskPool")
    /\ ~ret.instance.nil
    /\ ret.instance.vm.valid

\* C7 as stated: when the VM manager's Create fails, the returned error's
\* outermost context names the tracked step, "Creating VM for instance '<j>/<i>' ...",
\* and the Instance is nil.
C7_ErrorNamesTrackedStep ==
    (CreateReturned /\ LastStepFailedAt("vmCreate")) =>
        /\ ret.instance.nil
        /\ ret.err # NoErr
        /\ IsPrefix(<<"Creating VM for instance '", args.jobName, "/">>
                        \o FormatInt(args.id),
                    ret.err[1])

\* C7 amended: when the VM manager's Create fails with cause e, Create returns e
\* wrapped once with the context "Creating VM", and a nil Instance; the step's
\* name is on the stage, marked failed, not in the error.
C7_ErrorWrappedCreatingVM ==
    (CreateReturned /\ LastStepFailedAt("vmCreate")) =>
        /\ ret.instance.nil
        /\ ret.err = <<<<"Creating VM">>>> \o StepsDone[1].err
        /\ stage = <<[name |-> StepName(args.jobName, args.id, args.cid),
                      status |-> "failed"]>>

\* Create for worker/0 has returned "Creating VM: insufficient capacity".
C7_Witness ==
    /\ CreateReturned
    /\ LastStepFailedAt("vmCreate")
    /\ args.jobName = "worker" /\ args.id = 0
    /\ ret.err = <<<<"Creating VM">>, <<"insufficient capacity">>>>

FindCurrentReturned == pc = "idle" /\ ret.op = "FindCurrent"

\* C8: FindCurrent returns no instance and no error when no VM is deployed, one
\* Instance "unknown"/0 wrapping the deployed VM and no error when one is, and no
\* instance with the lookup error wrapped when the lookup fails.
C8_FindCurrentResult ==
    FindCurrentReturned =>
        IF ~trace[1].ok
        THEN /\ ret.instances = <<>>
             /\ ret.err = <<<<"Finding currently deployed instances">>>> \o trace[1].err
        ELSE IF ~current.valid
        THEN ret.instances = <<>> /\ ret.err = NoErr
        ELSE /\ ret.instances = <<[nil |-> FALSE, jobName |-> "unknown", id |-> 0,
                                   vm |-> current]>>
             /\ ret.err = NoErr

\* FindCurrent has found a VM that was created as worker/1.
C8_Witness ==
    /\ FindCurrentReturned
    /\ createdAs = [jobName |-> "worker", id |-> 1]
    /\ Len(ret.instances) = 1
    /\ ret.instances[1].jobName = "unknown"
    /\ ret.instances[1].vm = current

DeleteAllReturned == pc = "idle" /\ ret.op = "DeleteAll"

\* The Delete calls the DeleteAll in progress has made, in order.
DeletesDone == Tail(trace)

\* C9: DeleteAll deletes the instances FindCurrent returned one at a time in
\* order; the first failure is returned wrapped with "Deleting existing instance
\* '<jobName>/<id>'" and ends the loop; with no instance it succeeds without a
\* Delete.
C9_DeleteAllStopsAtFirstFailure ==
    ((pc = "d_loop" \/ DeleteAllReturned) /\ trace[1].ok) =>
        /\ Len(DeletesDone) <= Len(instances)
        /\ \A k \in DOMAIN DeletesDone :
              /\ DeletesDone[k].op = "Delete"
              /\ DeletesDone[k].vm = instances[k].vm
              /\ k < Len(DeletesDone) => DeletesDone[k].ok
        /\ (DeletesDone # <<>> /\ ~DeletesDone[Len(DeletesDone)].ok) =>
              /\ DeleteAllReturned
              /\ ret.err = <<DeletingContext(instances[Len(DeletesDone)].jobName,
                                             instances[Len(DeletesDone)].id)>>
                               \o DeletesDone[Len(DeletesDone)].err
        /\ (DeleteAllReturned /\ (DeletesDone = <<>> \/ DeletesDone[Len(DeletesDone)].ok)) =>
              /\ ret.err = NoErr
              /\ Len(DeletesDone) = Len(instances)

\* DeleteAll has returned the wrapped error of a failed Delete.
C9_Witness ==
    /\ DeleteAllReturned
    /\ Len(instances) = 1
    /\ Len(DeletesDone) = 1
    /\ ret.err = <<<<"Deleting existing instance '", "unknown", "/", "0", "'">>,
                   <<"connection refused">>>>

\* C10: over Create calls issued one after the other, a registry Start begins only
\* once every earlier call's Stop has completed: starts begun exceed stops
\* completed by at most one, and by none while a Start is still to begin.
C10_OneRegistryAtATime ==
    /\ starts - stops <= 1
    /\ \A c \in 1..MaxCalls : gor[c] = "spawned" => starts = stops

\* A second registry has been started after the first call's Stop.
C10_Witness ==
    /\ starts = 2
    /\ stops = 1
    /\ pc = "c_recv"

\* Every step of the call succeeded.
AllStepsSucceeded ==
    /\ Len(StepsDone) = Len(StepOrder)
    /\ \A k \in DOMAIN StepsDone : StepsDone[k].ok

\* The positions on the stage of the steps carrying the name of the tracked step.
TrackedSteps ==
    {k \in DOMAIN stage :
        stage[k].name = <<"Creating VM for instance '", args.jobName, "/">>
                            \o FormatInt(args.id)
                            \o <<"' from stemcell '", args.cid, "'">>}

\* C11: a Create in which every collaborator succeeded returns no error and an
\* Instance with the job name and id it was given, and the stage holds exactly one
\* step named "Creating VM for instance '<jobName>/<id>' from stemcell '<cid>'",
\* finished successfully.
C11_SuccessfulCreate ==
    (CreateReturned /\ AllStepsSucceeded) =>
        /\ ret.err = NoErr
        /\ ~ret.instance.nil
        /\ ret.instance.jobName = args.jobName
        /\ ret.instance.id = args.id
        /\ Cardinality(TrackedSteps) = 1
        /\ \A k \in TrackedSteps : stage[k].status = "finished"

\* Create("worker", 0, ...) with a registry has succeeded.
C11_Witness ==
    /\ CreateReturned
    /\ AllStepsSucceeded
    /\ ~args.registryEmpty
    /\ ret.instance.jobName = "worker"
    /\ ret.instance.id = 0
    /\ stage = <<[name |-> <<"Creating VM for instance '", "worker", "/", "0",
                            "' from stemcell '", "stemcell-1", "'">>,
                  status |-> "finished"]>>

\* C12 as stated: whenever the VM manager's Create succeeded in a call, the call
\* returns a non-nil Instance wrapping that VM, whatever happens later.
C12_InstanceWheneverVMCreated ==
    (CreateReturned /\ StepsDone # <<>> /\ StepsDone[1].ok) =>
        /\ ~ret.instance.nil
        /\ ret.instance.vm = CreatedVM

\* C12 amended: whenever the VM manager's Create and the stemcell promotion both
\* succeeded in a call, the call returns a non-nil Instance wrapping that VM,
\* whether it then succeeds or fails; when the promotion fails the call returns a
\* nil Instance although the VM was created.
C12_InstanceOncePromoted ==
    /\ (CreateReturned /\ Len(StepsDone) >= 2 /\ StepsDone[2].ok) =>
          /\ ~ret.instance.nil
          /\ ret.instance.vm = CreatedVM
          /\ CreatedVM.valid
    /\ (CreateReturned /\ LastStepFailedAt("promote")) =>
          /\ ret.instance.nil
          /\ CreatedVM.valid
          /\ ret.err # NoErr

\* A Create has returned after its promotion failed: the VM exists, the Instance
\* is nil.
C12_Witness ==
    /\ CreateReturned
    /\ LastStepFailedAt("promote")
    /\ current = CreatedVM
    /\ ret.instance.nil

\* The collaborator calls of the operation that returned an error.
FailedCalls == SelectSeq(trace, LAMBDA ev : ~ev.ok)

WrappedOps == {"recv", "vmCreate", "promote", "waitUntilReady", "diskPool", "diskDeploy"}

\* The context each failing step is said to add.
ContextOf(op) ==
    CASE op = "recv" -> <<"Starting registry">>
      [] op = "vmCreate" -> <<"Creating VM">>
      [] op = "promote" -> <<"Promoting stemcell as current '", args.cid, "'">>
      [] op = "waitUntilReady" -> <<"Waiting until instance is ready">>
      [] op = "diskPool" -> <<"Getting disk pool">>
      [] op = "diskDeploy" -> <<"Deploying disk">>

\* C13: the error a failed Create returns is the cause wrapped once with the
\* context of exactly the step that failed, and with no other step's context; a
\* StartJobs failure is returned as it is.
C13_ErrorIdentifiesStep ==
    (CreateReturned /\ FailedCalls # <<>>) =>
        /\ Len(FailedCalls) = 1
        /\ ret.err # NoErr
        /\ IF FailedCalls[1].op = "startJobs"
           THEN ret.err = FailedCalls[1].err
           ELSE /\ FailedCalls[1].op \in WrappedOps
                /\ ret.err = <<ContextOf(FailedCalls[1].op)>> \o FailedCalls[1].err
        /\ \A op \in WrappedOps \ {FailedCalls[1].op} : ret.err[1] # ContextOf(op)

\* A Create has returned a promotion failure with the promotion's context.
C13_Witness ==
    /\ CreateReturned
    /\ LastStepFailedAt("promote")
    /\ ret.err = <<<<"Promoting stemcell as current '", "stemcell-1", "'">>,
                   <<"connection refused">>>>

\* C14: a non-nil Instance of a Create, while the call runs and when it returns,
\* holds the VM the VM manager handed out in that call and exists only once VM
\* creation and promotion have both succeeded; after a failed VM creation no
\* promotion is attempted and the Instance is nil.
C14_InstanceHoldsCreatedVM ==
    (CreateActive \/ CreateReturned) =>
        /\ ~instance.nil =>
              /\ Len(StepsDone) >= 2
              /\ StepsDone[1].ok /\ StepsDone[2].ok
              /\ StepsDone[1].vm.valid
              /\ instance.vm = StepsDone[1].vm
        /\ CreateReturned => ret.instance = instance
        /\ (StepsDone # <<>> /\ ~StepsDone[1].ok) =>
              /\ Len(StepsDone) = 1
              /\ Count("promote") = 0
              /\ instance.nil

\* The second Create of a behaviour has returned an Instance holding the second
\* VM handed out.
C14_Witness ==
    /\ CreateReturned
    /\ ~ret.instance.nil
    /\ ret.instance.vm = VMHandle(2)
    /\ StepsDone[1].vm = VMHandle(2)

StepPcs == {"c_vm", "c_promote", "c_wait", "c_pool", "c_disk", "c_jobs"}

\* The call in progress has a registry and has read nil from the readiness signal.
RegistryReady ==
    /\ ~args.registryEmpty
    /\ trace # <<>>
    /\ trace[1].op = "recv"
    /\ trace[1].ok

\* C15: in a Create whose registry signalled ready, Stop is invoked only after the
\* last step the call attempts has returned: while a step is in progress or still
\* to come the registry has not been stopped and is serving, and a Stop is the
\* last call of the operation.
C15_StopAfterLastStep ==
    ((CreateActive \/ CreateReturned) /\ RegistryReady) =>
        /\ pc \in StepPcs =>
              /\ Count("Stop") = 0
              /\ deferred
              /\ gor[calls] = "serving"
        /\ \A k \in DOMAIN trace :
              trace[k].op = "Stop" => (k = Len(trace) /\ pc \in {"c_exit", "idle"})

\* The disk deploy of a Create is about to run with the registry still serving.
C15_Witness ==
    /\ pc = "c_disk"
    /\ RegistryReady
    /\ gor[calls] = "serving"
    /\ starts = stops + 1

\* C16: when FindCurrent fails inside DeleteAll, DeleteAll returns the lookup error
\* wrapped once, with "Finding currently deployed instances" and nothing else, and
\* has called Delete on nothing.
C16_DeleteAllFindFails ==
    (DeleteAllReturned /\ ~trace[1].ok) =>
        /\ ret.err = <<<<"Finding currently deployed instances">>>> \o trace[1].err
        /\ Len(trace) = 1
        /\ Count("Delete") = 0

\* DeleteAll has returned the lookup error while a VM is deployed.
C16_Witness ==
    /\ DeleteAllReturned
    /\ ~trace[1].ok
    /\ current.valid
    /\ ret.err = <<<<"Finding currently deployed instances">>, <<"connection refused">>>>

\* Registry goroutines launched so far (`go m.startRegistry`).
Launched == Cardinality({c \in 1..MaxCalls : gor[c] # "none"})

\* A step of FindCurrent, of DeleteAll, or of a Create with an empty registry.
NonRegistryStep ==
    \/ pc = "d_loop"
    \/ pc = "idle" /\ pc' \in {"idle", "d_loop"}
    \/ pc = "idle" /\ pc' \in CreatePcs /\ args'.registryEmpty
    \/ CreateActive /\ args.registryEmpty

\* C17: only a Create with a non-empty registry touches the registry server: no
\* step of FindCurrent, of DeleteAll or of a Create with an empty registry starts
\* or stops it, such a Create makes no Stop call, and whenever no operation is in
\* progress the Stops made equal the registry starts launched.
C17_RegistryOnlyInCreateWithRegistry ==
    /\ [](pc = "idle" => (stops = Launched /\ starts = Launched))
    /\ [](((CreateActive \/ CreateReturned) /\ args.registryEmpty) => Count("Stop") = 0)
    /\ [][NonRegistryStep => (starts' = starts /\ stops' = stops /\ gor' = gor)]_vars

\* After a Create with a registry, a Create without one and a DeleteAll that
\* deleted the VM, one registry was launched and one Stop made.
C17_Witness ==
    /\ calls = 3
    /\ DeleteAllReturned
    /\ Len(trace) = 2
    /\ args.registryEmpty
    /\ gor[1] = "done"
    /\ Launched = 1
    /\ stops = 1

====
